---- MODULE Spec2Model ----
(***************************************************************************)
(* A state-machine model of gtd.py (src/gtd.py) and of the Display class   *)
(* of its successor layout (src/todo/display.py).                          *)
(*                                                                         *)
(* The program is single-threaded; each of its subsystems is modelled by   *)
(* its own specification over its own group of variables:                  *)
(*   SpecFilter  - TrelloWrapper.get_cards, the card filter engine         *)
(*   SpecReview  - review_list / review_card and the process entry point   *)
(*   SpecQuick   - quickmove, the one-keystroke selector                   *)
(*   SpecTable   - Display.show_cards / resize_and_get_table               *)
(*   SpecJson    - JSONDisplay and Display.show_cards(use_json=True)       *)
(*   SpecDue     - the due lines of TextDisplay.show and Display.show_card *)
(*   SpecConnect - TrelloWrapper.__init__ / __connect at session start     *)
(*   SpecCommand - perform_command: show, grep, batch and review           *)
(***************************************************************************)
EXTENDS Integers, Sequences, FiniteSets, TLC

VARIABLES
    \* ---- get_cards ----
    cardsource,     \* the cards the source iterator will produce, in order
    args,           \* the keyword arguments of get_cards
    filters,        \* the list `filters` built by get_cards
    pos,            \* number of cards of cardsource already consumed
    yielded,        \* the cards yielded so far, in order
    fpc,            \* "call" | "iter" | "done"
    \* ---- quickmove ----
    iterable,       \* the options handed to quickmove, in order
    remainder,      \* the list `remainder`, in the order the set iterates
    lookup,         \* the dict `lookup`: key -> index
    printed,        \* the "[key] option" lines printed so far
    req,            \* the keystroke read by getch
    qret,           \* how quickmove ended: [status, value]
    qpc,            \* "idle" | "loop" | "getch" | "done"
    \* ---- review (perform_command 'review', review_list, review_card) ----
    cards,          \* the cards the filtered sequence yields: index -> card
    ri,             \* index of the card review_list is at (0 before the first)
    header_open,    \* whether review_card prepended "Open attachment" to header
    choice,         \* the local `choice` of review_card
    newlabels,      \* the local `newlabels` of add_labels
    rename_default, \* the argument `default` of the running rename
    log,            \* displays, reads, remote calls and messages, in order
    exc,            \* the exception propagating out of main, or None
    exitcode,       \* the exit status of the process, -1 while it runs
    ninputs,        \* number of inputs (lines and keystrokes) read so far
    rpc,            \* where the review is: see NextReview
    \* ---- Display.show_cards as a table, resize_and_get_table ----
    rows,           \* the rows added to the table: per row, field -> cell length
    table_fields,   \* the argument table_fields of show_cards
    tsv,            \* the argument tsv of show_cards
    maxwidth,       \* click.get_terminal_size()[0]
    fset,           \* the local `fset` of resize_and_get_table
    to_remove,      \* the local `to_remove`
    possible,       \* the fields and the first-line width of `possible`
    removed,        \* the fields removed so far, in order
    tout,           \* what show_cards printed or raised
    tpc,            \* "call" | "resize" | "done"
    \* ---- structured export: JSONDisplay, Display.show_cards(use_json) ----
    jpath,          \* which export runs: "JSONDisplay" | "Display"
    jcards,         \* the cards to export: per card, its __dict__
    jpos,           \* number of cards passed to JSONDisplay.show so far
    items,          \* JSONDisplay.items
    jout,           \* what was printed: [status, json]
    jpc,            \* "show" | "call" | "done"
    \* ---- the detail view's due lines: TextDisplay.show, Display.show_card ----
    dpath,          \* which detail view runs: "TextDisplay" | "Display"
    dcard,          \* the card shown: [due, due_date, aware]
    now,            \* datetime.now(timezone.utc), in days
    dout,           \* the due lines printed, in order
    dpc,            \* "call" | "done"
    \* ---- session start: TrelloWrapper.__init__, __connect and the entry point ----
    config,         \* the parsed gtd.yaml: [present, board_name, incoming]
    primary_list,   \* the argument primary_list of TrelloWrapper (args.list)
    remote,         \* the boards of the account: per board, [name, lists]
    fail_at,        \* the remote call at which the connection fails, or None
    primary_list_name,\* self.primary_list_name
    main_board,     \* self.main_board: a board index, 0 for the []
    main_list,      \* self.main_list: a list index of main_board, 0 if unset
    cout,           \* the messages printed, in order
    cexc,           \* the exception raised out of the constructor, or None
    cexit,          \* the exit status of the process, -1 while it runs
    cpc,            \* "init" | "list_boards" | "get_lists" | "lookups" | "connected" | "raised" | "exited"
    \* ---- perform_command: the subcommands that process filtered cards ----
    cargs,          \* the parsed command line: args
    cboard,         \* the open lists of the board: list name -> its cards
    cmain,          \* the name of wrapper.main_list
    cards_gen,      \* the generator `cards` of line 439: [kw, target_lists]
    gen,            \* the generator being iterated: [filters, todo, buf]
    fetches,        \* the remote card fetches made, in order
    processed,      \* the cards handed to the subcommand, in order
    cmdpc           \* "start" | "dispatch" | "iterate" | "done"

filterVars == <<cardsource, args, filters, pos, yielded, fpc>>
quickVars == <<iterable, remainder, lookup, printed, req, qret, qpc>>
reviewVars == <<cards, ri, header_open, choice, newlabels, rename_default, log,
                exc, exitcode, ninputs, rpc>>

tableVars == <<rows, table_fields, tsv, maxwidth, fset, to_remove, possible,
               removed, tout, tpc>>

jsonVars == <<jpath, jcards, jpos, items, jout, jpc>>

dueVars == <<dpath, dcard, now, dout, dpc>>

connectVars == <<config, primary_list, remote, fail_at, primary_list_name, main_board, main_list, cout, cexc, cexit, cpc>>

commandVars == <<cargs, cboard, cmain, cards_gen, gen, fetches, processed, cmdpc>>

vars == <<filterVars, quickVars, reviewVars, tableVars, jsonVars,
         dueVars,
         connectVars,
         commandVars>>

\* the variables each subsystem leaves alone
outsideFilter == <<quickVars, reviewVars, tableVars, jsonVars,
    dueVars,
    connectVars,
    commandVars>>
outsideQuick == <<filterVars, reviewVars, tableVars, jsonVars,
    dueVars,
    connectVars,
    commandVars>>
outsideReview == <<filterVars, quickVars, tableVars, jsonVars,
    dueVars,
    connectVars,
    commandVars>>
outsideTable == <<filterVars, quickVars, reviewVars, jsonVars,
    dueVars,
    connectVars,
    commandVars>>
outsideJson == <<filterVars, quickVars, reviewVars, tableVars,
    dueVars,
    connectVars,
    commandVars>>
outsideDue == <<filterVars, quickVars, reviewVars, tableVars, jsonVars,
    connectVars,
    commandVars>>
outsideConnect == <<filterVars, quickVars, reviewVars, tableVars, jsonVars, dueVars,
    commandVars>>
outsideCommand == <<filterVars, quickVars, reviewVars, tableVars, jsonVars, dueVars, connectVars>>

None == "None"

(***************************************************************************)
(* Bounds of the model.                                                    *)
(***************************************************************************)
MaxCards == 2
MaxOptions == 14
MaxBatch == 2
MaxInputs == 3
MaxExtra == 1
MaxExport == 3

(***************************************************************************)
(* Generic helpers.                                                        *)
(***************************************************************************)
Range(s) == {s[i] : i \in 1..Len(s)}

SeqsUpTo(S, n) == UNION {[1..k -> S] : k \in 0..n}

(***************************************************************************)
(* Cards as get_cards sees them.  name is the decoded title, a sequence of *)
(* characters; list_labels the names of the card's labels; attachments the *)
(* result of get_attachments(); due_date is "" when the card has none.     *)
(***************************************************************************)
MAGIC == "NOTAG"

CardOf(labels, rest) ==
    [ list_labels |-> labels, name |-> rest[1], attachments |-> rest[2],
      due_date |-> rest[3] ]

\* every title/attachment, title/due and attachment/due pairing occurs,
\* each with every label list
FilterCards ==
    { CardOf(l, r) :
        l \in {<<>>, <<"y">>, <<"y", "x">>},
        r \in { <<<<"f", "o">>, <<>>, "">>,
                <<<<"f", "o">>, <<"http://a">>, "2017-05-01">>,
                <<<<"b">>, <<"http://a">>, "">>,
                <<<<"b">>, <<>>, "2017-05-01">> } }

\* re.search(title_regex, name) for a literal pattern (found anywhere) and
\* for the pattern '.*'
re_search(pattern, name) ==
    IF pattern = <<".", "*">> THEN TRUE    \* '.*' matches every title
    ELSE \E i \in 1..(Len(name) - Len(pattern) + 1) :
             SubSeq(name, i, i + Len(pattern) - 1) = pattern

\* Python truthiness of the values the filters test: an empty (or absent)
\* list, an empty string
TruthyList(v) == v # <<>>
TruthyStr(v) == v # ""

filter_card_by_tag(card, tag) ==
    IF TruthyList(card.list_labels)
    THEN tag \in Range(card.list_labels)
    ELSE FALSE

\* the arbitrary predicates callers pass as filterspec
FilterSpecs == {"short_title"}

CallFilterspec(spec, card) == Len(card.name) <= 1

\* f(card) for an element f of `filters`; the value is the truthiness of
\* what the lambda returns
CallFilter(f, card) ==
    CASE f.kind = "notag"       -> ~TruthyList(card.list_labels)
      [] f.kind = "tag"         -> filter_card_by_tag(card, f.arg)
      [] f.kind = "title_regex" -> re_search(f.arg, card.name)
      [] f.kind = "filterspec"  -> CallFilterspec(f.arg, card)
      [] f.kind = "attachments" -> f.arg /\ TruthyList(card.attachments)
      [] f.kind = "due"         -> TruthyStr(card.due_date)

Flt(kind, arg) == [kind |-> kind, arg |-> arg]

\* lines 222-234: the list of filters, in the order get_cards appends them
BuildFilters(a) ==
    (IF a.tag = MAGIC THEN <<Flt("notag", None)>>
     ELSE IF a.tag # None THEN <<Flt("tag", a.tag)>>
     ELSE <<>>)
    \o (IF a.title_regex # <<>> THEN <<Flt("title_regex", a.title_regex)>> ELSE <<>>)
    \o (IF a.filterspec # None THEN <<Flt("filterspec", a.filterspec)>> ELSE <<>>)
    \o (IF a.has_attachments THEN <<Flt("attachments", a.has_attachments)>> ELSE <<>>)
    \o (IF a.has_due_date THEN <<Flt("due", None)>> ELSE <<>>)

\* a loop in which the last filter alone decides (keep = f(card))
RECURSIVE KeepLoopLastWins(_, _, _)
KeepLoopLastWins(fs, card, keep) ==
    IF fs = <<>> THEN keep
    ELSE KeepLoopLastWins(Tail(fs), card, CallFilter(Head(fs), card))

\* lines 236-239: keep = True; for f in filters: if not f(card): keep = False
RECURSIVE KeepLoop(_, _, _)
KeepLoop(fs, card, keep) ==
    IF fs = <<>> THEN keep
    ELSE KeepLoop(Tail(fs), card, IF ~CallFilter(Head(fs), card) THEN FALSE ELSE keep)

Keep(fs, card) == KeepLoop(fs, card, TRUE)

GetCardsArgs ==
    [ tag             : {None, MAGIC, "x"},
      title_regex     : {<<>>, <<"o">>},
      filterspec      : {None} \cup FilterSpecs,
      has_attachments : {FALSE, TRUE},
      has_due_date    : {FALSE, TRUE} ]

FilterIdle ==
    /\ cardsource = <<>>
    /\ args = [tag |-> None, title_regex |-> <<>>, filterspec |-> None,
               has_attachments |-> FALSE, has_due_date |-> FALSE]
    /\ filters = <<>>
    /\ pos = 0
    /\ yielded = <<>>
    /\ fpc = "idle"

QuickIdle ==
    /\ iterable = <<>>
    /\ remainder = <<>>
    /\ lookup = <<>>
    /\ printed = <<>>
    /\ req = ""
    /\ qret = [status |-> "idle", value |-> ""]
    /\ qpc = "idle"

(***************************************************************************)
(* Python strings, as sequences of one-character strings.                  *)
(***************************************************************************)
Digits == {"0", "1", "2", "3", "4", "5", "6", "7", "8", "9"}

DigitValue(c) ==
    CASE c = "0" -> 0 [] c = "1" -> 1 [] c = "2" -> 2 [] c = "3" -> 3
      [] c = "4" -> 4 [] c = "5" -> 5 [] c = "6" -> 6 [] c = "7" -> 7
      [] c = "8" -> 8 [] c = "9" -> 9

\* str.upper(), one character
UpperChar(c) ==
    CASE c = "a" -> "A" [] c = "d" -> "D" [] c = "m" -> "M" [] c = "o" -> "O"
      [] c = "p" -> "P" [] c = "q" -> "Q" [] c = "r" -> "R" [] c = "s" -> "S"
      [] c = "t" -> "T" [] c = "u" -> "U" [] c = "x" -> "X"
      [] OTHER -> c

Upper(str) == [i \in 1..Len(str) |-> UpperChar(str[i])]

\* str.strip()
RECURSIVE LStrip(_)
LStrip(str) == IF str # <<>> /\ Head(str) = " " THEN LStrip(Tail(str)) ELSE str

RECURSIVE RStrip(_)
RStrip(str) ==
    IF str # <<>> /\ str[Len(str)] = " "
    THEN RStrip(SubSeq(str, 1, Len(str) - 1))
    ELSE str

Strip(str) == RStrip(LStrip(str))

\* str.find(sub): the lowest 0-based index, or -1
Find(sub, str) ==
    LET hits == {i \in 0..(Len(str) - Len(sub)) :
                    SubSeq(str, i + 1, i + Len(sub)) = sub}
    IN  IF hits = {} THEN -1 ELSE CHOOSE i \in hits : \A j \in hits : i <= j

\* `sub in str`
Contains(sub, str) == Find(sub, str) # -1

\* str[a:b], with Python's treatment of negative and out-of-range bounds
SliceBound(i, n) ==
    LET j == IF i < 0 THEN i + n ELSE i
    IN  IF j < 0 THEN 0 ELSE IF j > n THEN n ELSE j

Slice(str, a, b) ==
    SubSeq(str, SliceBound(a, Len(str)) + 1, SliceBound(b, Len(str)))

\* str.split(delim): empty pieces are kept
RECURSIVE SplitOn(_, _)
SplitOn(str, delim) ==
    LET i == Find(<<delim>>, str)
    IN  IF i = -1 THEN <<str>>
        ELSE <<SubSeq(str, 1, i)>> \o SplitOn(SubSeq(str, i + 2, Len(str)), delim)

\* str.split(): runs of blanks separate, empty pieces are dropped
SplitWS(str) == SelectSeq(SplitOn(str, " "), LAMBDA piece : piece # <<>>)

\* int(token): blanks around, an optional sign, then decimal digits
IsIntLiteral(token) ==
    LET t == Strip(token)
        d == IF t # <<>> /\ Head(t) \in {"-", "+"} THEN Tail(t) ELSE t
    IN  d # <<>> /\ \A i \in 1..Len(d) : d[i] \in Digits

RECURSIVE DecimalValue(_)
DecimalValue(d) ==
    IF d = <<>> THEN 0
    ELSE 10 * DecimalValue(SubSeq(d, 1, Len(d) - 1)) + DigitValue(d[Len(d)])

ToInt(token) ==
    LET t == Strip(token)
    IN  IF Head(t) = "-" THEN 0 - DecimalValue(Tail(t))
        ELSE IF Head(t) = "+" THEN DecimalValue(Tail(t))
        ELSE DecimalValue(t)

ReviewIdle ==
    /\ cards = <<>>
    /\ ri = 0
    /\ header_open = FALSE
    /\ choice = <<>>
    /\ newlabels = <<>>
    /\ rename_default = <<>>
    /\ log = <<>>
    /\ exc = None
    /\ exitcode = -1
    /\ ninputs = 0
    /\ rpc = "idle"

JsonIdle ==
    /\ jpath = "idle"
    /\ jcards = <<>>
    /\ jpos = 0
    /\ items = <<>>
    /\ jout = [status |-> "idle", json |-> <<>>]
    /\ jpc = "idle"

DueIdle ==
    /\ dpath = "idle"
    /\ dcard = [due |-> FALSE, due_date |-> 0, aware |-> TRUE]
    /\ now = 0
    /\ dout = <<>>
    /\ dpc = "idle"

ConnectIdle ==
    /\ config = [present |-> {}, board_name |-> <<>>, incoming |-> <<>>]
    /\ primary_list = <<>>
    /\ remote = <<>>
    /\ fail_at = None
    /\ primary_list_name = <<>>
    /\ main_board = 0
    /\ main_list = 0
    /\ cout = <<>>
    /\ cexc = None
    /\ cexit = -1
    /\ cpc = "idle"

\* the defaults of the keyword arguments of get_cards (line 218)
GetCardsDefaults ==
    [tag |-> None, title_regex |-> <<>>, filterspec |-> None,
     has_attachments |-> FALSE, has_due_date |-> FALSE]

CommandIdle ==
    /\ cargs = [command |-> "idle"]
    /\ cboard = <<>>
    /\ cmain = ""
    /\ cards_gen = [kw |-> GetCardsDefaults, target_lists |-> <<>>]
    /\ gen = [filters |-> <<>>, todo |-> <<>>, buf |-> <<>>]
    /\ fetches = <<>>
    /\ processed = <<>>
    /\ cmdpc = "idle"

TableIdle ==
    /\ rows = <<>>
    /\ table_fields = <<>>
    /\ tsv = FALSE
    /\ maxwidth = 0
    /\ fset = {}
    /\ to_remove = <<>>
    /\ possible = [fields |-> {}, width |-> 0]
    /\ removed = <<>>
    /\ tout = [kind |-> "idle", fields |-> {}]
    /\ tpc = "idle"

(***************************************************************************)
(* quickmove (src/gtd.py lines 416-432).                                   *)
(***************************************************************************)
preferred_keys == <<"a", "s", "d", "f", "g", "h", "j", "k", "l", ";", "'">>

ascii_lowercase ==
    {"a", "b", "c", "d", "e", "f", "g", "h", "i", "j", "k", "l", "m", "n",
     "o", "p", "q", "r", "s", "t", "u", "v", "w", "x", "y", "z"}

CtrlC == "^C"

\* the keystrokes getch can deliver: the assignable keys, a letter and a
\* digit that are never assigned, Enter, and the interrupt character
Keystrokes == Range(preferred_keys) \cup {"q", "1", "CR", CtrlC}

\* the orders in which a Python set of strings can be iterated: any
Orderings(S) ==
    {q \in [1..Cardinality(S) -> S] : \A i, j \in DOMAIN q : q[i] = q[j] => i = j}

\* line 424: set(preferred_keys) - set(string.ascii_lowercase)
RemainderSet == Range(preferred_keys) \ ascii_lowercase

\* line 425
all_keys(rem) == preferred_keys \o rem

\* the names of the lists of the board, as quickmove receives them
ListNames ==
    <<"Inbox", "Doing", "Done", "Holding", "Blocked", "Call", "Mail", "Meet",
      "Read", "Watch", "Buy", "Someday", "Maybe", "Waiting", "Archive",
      "Reference", "Projects", "Ideas">>

\* dict assignment lookup[k] = v
DictSet(d, k, v) == (k :> v) @@ d

\* one iteration of the loop of lines 426-429, for the 0-based index idx;
\* all_keys[idx] raises IndexError past the end of the list
AssignStep(keys, d, idx) ==
    IF idx + 1 > Len(keys)
    THEN [status |-> "IndexError", lookup |-> d, assigned |-> ""]
    ELSE [status |-> "ok", lookup |-> DictSet(d, keys[idx + 1], idx),
          assigned |-> keys[idx + 1]]

\* lines 431-432 once the key is read: list(iterable)[int(lookup.get(req, None))]
\* getch raises KeyboardInterrupt on Ctrl+C (line 409); int(None) is a TypeError
Select(opts, d, key) ==
    IF key = CtrlC THEN [status |-> "KeyboardInterrupt", value |-> ""]
    ELSE IF key \notin DOMAIN d THEN [status |-> "TypeError", value |-> ""]
    ELSE [status |-> "ok", value |-> opts[d[key] + 1]]

\* the whole loop, from index idx on
RECURSIVE AssignAll(_, _, _, _)
AssignAll(opts, keys, d, idx) ==
    IF idx >= Len(opts) THEN [status |-> "ok", lookup |-> d]
    ELSE LET r == AssignStep(keys, d, idx)
         IN  IF r.status # "ok" THEN [status |-> r.status, lookup |-> d]
             ELSE AssignAll(opts, keys, r.lookup, idx + 1)

\* quickmove as a function of its options, the set order and the keystroke
quickmove(opts, rem, key) ==
    LET a == AssignAll(opts, all_keys(rem), <<>>, 0)
    IN  IF a.status # "ok" THEN [status |-> a.status, value |-> ""]
        ELSE Select(opts, a.lookup, key)

InitQuick ==
    /\ JsonIdle
    /\ TableIdle
    /\ FilterIdle
    /\ ReviewIdle
    /\ DueIdle
    /\ ConnectIdle
    /\ CommandIdle
    /\ \E n \in 0..MaxOptions : iterable = SubSeq(ListNames, 1, n)
    /\ remainder \in Orderings(RemainderSet)
    /\ lookup = <<>>
    /\ printed = <<>>
    /\ req = ""
    /\ qret = [status |-> "running", value |-> ""]
    /\ qpc = "loop"

\* one iteration of `for idx, chunk in enumerate(iterable)`
QuickAssign ==
    /\ qpc = "loop"
    /\ Len(printed) < Len(iterable)
    /\ LET r == AssignStep(all_keys(remainder), lookup, Len(printed))
       IN  IF r.status = "ok"
           THEN /\ lookup' = r.lookup
                /\ printed' = Append(printed, [key |-> r.assigned,
                                               option |-> iterable[Len(printed) + 1]])
                /\ UNCHANGED <<qret, qpc>>
           ELSE /\ qret' = [status |-> r.status, value |-> ""]
                /\ qpc' = "done"
                /\ UNCHANGED <<lookup, printed>>
    /\ UNCHANGED <<iterable, remainder, req>>
    /\ UNCHANGED outsideQuick

\* the loop is over: the prompt line is printed and getch blocks
QuickPrompt ==
    /\ qpc = "loop"
    /\ Len(printed) = Len(iterable)
    /\ qpc' = "getch"
    /\ UNCHANGED <<iterable, remainder, lookup, printed, req, qret>>
    /\ UNCHANGED outsideQuick

\* the keystroke arrives and quickmove returns or raises
QuickGetch ==
    /\ qpc = "getch"
    /\ \E key \in Keystrokes :
          /\ req' = key
          /\ qret' = Select(iterable, lookup, key)
    /\ qpc' = "done"
    /\ UNCHANGED <<iterable, remainder, lookup, printed>>
    /\ UNCHANGED outsideQuick

NextQuick == QuickAssign \/ QuickPrompt \/ QuickGetch

SpecQuick == InitQuick /\ [][NextQuick]_vars

(***************************************************************************)
(* Claims about quickmove.                                                 *)
(***************************************************************************)
\* the option printed on line i (1-based)
KeyOf(i) == printed[i].key

\* C6 (as claimed): option i is printed with the i-th key of the alphabet
\* (the home-row keys, then the remaining lowercase letters), and when
\* quickmove returns after the key printed for option i was pressed, it
\* returns option i.
C6_KeyReturnsOption ==
    /\ \A i \in 1..Len(printed) :
          /\ printed[i].option = iterable[i]
          /\ i <= Len(preferred_keys) => KeyOf(i) = preferred_keys[i]
          /\ i > Len(preferred_keys) =>
                KeyOf(i) \in ascii_lowercase \ Range(preferred_keys)
    /\ qpc = "done" =>
          \A i \in 1..Len(iterable) :
             (i <= Len(printed) /\ KeyOf(i) = req) =>
                (qret.status = "ok" /\ qret.value = iterable[i])

\* C7 (as claimed): once the options are listed, every option has a key and
\* no two options share one.
C7_DistinctKeys ==
    (qpc \in {"getch", "done"}) =>
        /\ Len(printed) = Len(iterable)
        /\ \A i, j \in 1..Len(printed) : KeyOf(i) = KeyOf(j) => i = j

(***************************************************************************)
(* get_cards as a generator.                                               *)
(***************************************************************************)
InitFilter ==
    /\ JsonIdle
    /\ TableIdle
    /\ QuickIdle
    /\ ReviewIdle
    /\ DueIdle
    /\ ConnectIdle
    /\ CommandIdle
    /\ cardsource \in SeqsUpTo(FilterCards, MaxCards)
    /\ args \in GetCardsArgs
    /\ filters = <<>>
    /\ pos = 0
    /\ yielded = <<>>
    /\ fpc = "call"

\* first next() on the generator: lines 221-234
GetCardsCall ==
    /\ fpc = "call"
    /\ filters' = BuildFilters(args)
    /\ fpc' = "iter"
    /\ UNCHANGED <<cardsource, args, pos, yielded>>
    /\ UNCHANGED outsideFilter

\* one iteration of `for card in cardsource` (lines 235-241)
GetCardsNext ==
    /\ fpc = "iter"
    /\ pos < Len(cardsource)
    /\ pos' = pos + 1
    /\ yielded' = IF Keep(filters, cardsource[pos + 1])
                  THEN Append(yielded, cardsource[pos + 1])
                  ELSE yielded
    /\ UNCHANGED <<cardsource, args, filters, fpc>>
    /\ UNCHANGED outsideFilter

\* the source is exhausted: StopIteration
GetCardsStop ==
    /\ fpc = "iter"
    /\ pos = Len(cardsource)
    /\ fpc' = "done"
    /\ UNCHANGED <<cardsource, args, filters, pos, yielded>>
    /\ UNCHANGED outsideFilter

NextFilter == GetCardsCall \/ GetCardsNext \/ GetCardsStop

SpecFilter == InitFilter /\ [][NextFilter]_vars

(***************************************************************************)
(* Claims about get_cards.                                                 *)
(***************************************************************************)
\* the filters a call activates, as a set: tag or no-tag, title regex,
\* predicate, has-attachments, has-due-date
ActiveFilters(a) ==
    {Flt("notag", None) : x \in {y \in {a.tag} : y = MAGIC}}
    \cup {Flt("tag", t) : t \in {a.tag} \ {None, MAGIC}}
    \cup {Flt("title_regex", r) : r \in {a.title_regex} \ {<<>>}}
    \cup {Flt("filterspec", q) : q \in {a.filterspec} \ {None}}
    \cup {Flt("attachments", TRUE) : x \in {y \in {a.has_attachments} : y}}
    \cup {Flt("due", None) : x \in {y \in {a.has_due_date} : y}}

\* positions of the source whose card one filter accepts on its own
AcceptedBy(f, src) == {i \in 1..Len(src) : CallFilter(f, src[i])}

\* the subsequence of src at the positions in S, in source order
RECURSIVE Restrict(_, _, _)
Restrict(src, S, i) ==
    IF i > Len(src) THEN <<>>
    ELSE (IF i \in S THEN <<src[i]>> ELSE <<>>) \o Restrict(src, S, i + 1)

Intersection(a, src) ==
    {i \in 1..Len(src) : \A f \in ActiveFilters(a) : i \in AcceptedBy(f, src)}

NumFilterKinds == 5

Injective(f) == \A i, j \in DOMAIN f : f[i] = f[j] => i = j

PermsOf == [n \in 0..NumFilterKinds |-> {f \in [1..n -> 1..n] : Injective(f)}]

Permuted(fs, p) == [i \in 1..Len(fs) |-> fs[p[i]]]

\* C1: when get_cards is exhausted under a non-empty combination of filters,
\* it has yielded exactly the cards every active filter accepts on its own,
\* in source order, and applying the filters in any other order would have
\* kept the same cards.
C1_FilterIntersection ==
    (fpc = "done" /\ ActiveFilters(args) # {}) =>
        /\ yielded = Restrict(cardsource, Intersection(args, cardsource), 1)
        /\ \A p \in PermsOf[Len(filters)] : \A i \in 1..Len(cardsource) :
               Keep(Permuted(filters, p), cardsource[i]) = Keep(filters, cardsource[i])

\* two filters active, one card rejected by the first filter only, another
\* card accepted by both: the output is a proper, non-empty part of the source
C1_Witness ==
    /\ fpc = "done"
    /\ Len(filters) >= 2
    /\ Len(cardsource) >= 2
    /\ yielded # <<>>
    /\ Len(yielded) < Len(cardsource)
    /\ \E i \in 1..Len(cardsource) :
          /\ ~CallFilter(filters[1], cardsource[i])
          /\ CallFilter(filters[Len(filters)], cardsource[i])

(***************************************************************************)
(* The review session: the process entry point (lines 566-574), the        *)
(* 'review' branch of perform_command (lines 499-508), review_list and     *)
(* review_card (lines 309-363) and the sub-dialogues a command starts.     *)
(***************************************************************************)
Ev(ev, card, arg) == [ev |-> ev, card |-> card, arg |-> arg]

\* the open lists and the labels of the board, in list_lookup and
\* label_lookup order
BoardLists == SubSeq(ListNames, 1, 3)
BoardLabels == <<"x", "y">>

ReviewCards ==
    { [name |-> <<"m", "i", "l", "k">>, attachments |-> <<>>, labels |-> {}, due |-> <<>>,
       list |-> "Inbox", deleted |-> FALSE],
      [name |-> <<"s", "e", "e", " ", "h", "t", "t", "p", ":", "a">>, attachments |-> <<>>, labels |-> {"x"},
       due |-> <<>>, list |-> "Inbox", deleted |-> FALSE],
      [name |-> <<"h", "t", "t", "p", ":", "a">>, attachments |-> <<<<"h", "t", "t", "p", ":", "a">>>>, labels |-> {},
       due |-> <<>>, list |-> "Inbox", deleted |-> FALSE] }

\* lines 313-323: the menu line, escape sequences included
HeaderBase ==
    <<"ESC", "[", "0", ";", "3", "2", "m", "D", "ESC", "[", "0", "m",
      "e", "l", "e", "t", "e", ",", " ", "ESC", "[", "0", ";", "3",
      "2", "m", "T", "ESC", "[", "0", "m", "a", "g", ",", " ", "ESC",
      "[", "0", ";", "3", "2", "m", "A", "ESC", "[", "0", "m", "t",
      "t", "a", "c", "h", " ", "T", "i", "t", "l", "e", ",", " ",
      "ESC", "[", "0", ";", "3", "2", "m", "P", "ESC", "[", "0", "m",
      "r", "i", "n", "t", " ", "C", "a", "r", "d", ",", " ", "ESC",
      "[", "0", ";", "3", "2", "m", "R", "ESC", "[", "0", "m", "e",
      "n", "a", "m", "e", ",", " ", "d", "ESC", "[", "0", ";", "3",
      "2", "m", "U", "ESC", "[", "0", "m", "e", " ", "D", "a", "t",
      "e", ",", " ", "ESC", "[", "0", ";", "3", "2", "m", "M", "ESC",
      "[", "0", "m", "o", "v", "e", ",", " ", "ESC", "[", "0", ";",
      "3", "2", "m", "S", "ESC", "[", "0", "m", "k", "i", "p", ",",
      " ", "ESC", "[", "0", ";", "3", "2", "m", "Q", "ESC", "[", "0",
      "m", "u", "i", "t">>

\* line 325
OpenPrefix ==
    <<"ESC", "[", "0", ";", "3", "2", "m", "O", "ESC", "[", "0", "m",
      "p", "e", "n", " ", "a", "t", "t", "a", "c", "h", "m", "e", "n",
      "t", ",", " ">>

Header(with_open) == IF with_open THEN OpenPrefix \o HeaderBase ELSE HeaderBase

\* what the user may type at "Input option character: "
CommandLines ==
    { <<"d">>, <<"t">>, <<"a">>, <<"p">>, <<"r">>, <<"u">>, <<"m">>, <<"q">>, <<"s">>, <<"o">>,
      <<"x">>, <<>>, <<" ", "s", " ">>, <<"S">>, <<"s", "d">> }

\* line 330
ReadChoice(raw) == Upper(Strip(raw))

KnownChoices ==
    { <<"D">>, <<"T">>, <<"A">>, <<"P">>, <<"R">>, <<"U">>, <<"M">>, <<"Q">>, <<"S">>, <<"O">> }

\* what the user may type at the rename prompt
NameLines == { <<>>, <<"n", "e", "w">> }

\* what the user may type at the due date prompt
DateLines == { <<"0", "1", "/", "0", "5", "/", "2", "0", "1", "7">>, <<"3", "1", "/", "0", "2", "/", "2", "0", "2", "4">>, <<"2", "9", "/", "0", "2", "/", "2", "0", "2", "4">>, <<"1", "/", "5", "/", "2", "0", "1", "7">>,
    <<"0", "0", "/", "0", "0", "/", "0", "0", "0", "0">>,
    <<"9", "9", "/", "9", "9", "/", "2", "0", "2", "4">>, <<>> }

\* what the user may type at the multi-select prompt
SelectionLines == { <<"0">>, <<"1">>, <<"0", ",", "1">>, <<"0", " ", "0">>, <<"-", "1">>, <<"2">>, <<"x">>, <<"0", ",", " ", "1">>, <<>> }

\* the bodies requests.get may return for the linked page
Pages == { <<"<", "t", "i", "t", "l", "e", ">", "T", "<", "/", "t", "i", "t", "l", "e", ">">>, <<"<", "h", "t", "m", "l", ">", "g", "o", "n", "e">>, <<>> }

\* line 264: re.match('^[0-9]{2}\/[0-9]{2}\/[0-9]{4}$', input_date)
DateShape(str) ==
    /\ Len(str) = 10
    /\ str[3] = "/" /\ str[6] = "/"
    /\ \A i \in {1, 2, 4, 5, 7, 8, 9, 10} : str[i] \in Digits

\* line 266: [int(x) for x in input_date.split('/')[::-1]] = year, month, day
DateArgs(str) ==
    LET parts == SplitOn(str, "/")
    IN  <<ToInt(parts[3]), ToInt(parts[2]), ToInt(parts[1])>>

IsLeap(y) == (y % 4 = 0 /\ y % 100 # 0) \/ y % 400 = 0

DaysInMonth(y, m) ==
    IF m = 2 THEN (IF IsLeap(y) THEN 29 ELSE 28)
    ELSE IF m \in {4, 6, 9, 11} THEN 30 ELSE 31

MINYEAR == 1
MAXYEAR == 9999

\* line 267: datetime.datetime(year, month, day) raises ValueError otherwise
ValidDate(ymd) ==
    /\ MINYEAR <= ymd[1] /\ ymd[1] <= MAXYEAR
    /\ 1 <= ymd[2] /\ ymd[2] <= 12
    /\ 1 <= ymd[3] /\ ymd[3] <= DaysInMonth(ymd[1], ymd[2])

\* line 279: the words of the title that contain 'http'
Links(name) == SelectSeq(SplitWS(name), LAMBDA n : Contains(<<"h", "t", "t", "p">>, n))

\* lines 281-283: the attach calls, in order
NewAttachments(links, existing) ==
    SelectSeq(links, LAMBDA l : l \notin Range(existing))

\* line 275
TitleOf(as_text) ==
    Slice(as_text, Find(<<"<", "t", "i", "t", "l", "e", ">">>, as_text) + 7, Find(<<"<", "/", "t", "i", "t", "l", "e", ">">>, as_text))

\* lines 379-383 of prompt_for_user_choice: the tokens of the input
SelectionTokens(usersel) ==
    IF Contains(<<",">>, usersel) \/ Contains(<<" ">>, usersel)
    THEN SplitOn(usersel, IF Contains(<<",">>, usersel) THEN "," ELSE " ")
    ELSE <<usersel>>

\* listed[i], Python indexing: negative indices count from the end
PyIndexOk(i, n) == -n <= i /\ i < n
PyIndex(list, i) == IF i < 0 THEN list[Len(list) + i + 1] ELSE list[i + 1]

\* lines 254-258, from the labels the card carries: the card's labels
\* afterwards and the events (each add_label call, each "already present")
RECURSIVE AddLabels(_, _, _, _)
AddLabels(c, labels, todo, events) ==
    IF todo = <<>> THEN [labels |-> labels, events |-> events]
    ELSE LET l == Head(todo)
         IN  IF l \in labels
             THEN AddLabels(c, labels, Tail(todo),
                            events \o <<Ev("call:add_label", c, l),
                                        Ev("print:already_present", c, l)>>)
             ELSE AddLabels(c, labels \cup {l}, Tail(todo),
                            Append(events, Ev("call:add_label", c, l)))

InitReview ==
    /\ JsonIdle
    /\ TableIdle
    /\ FilterIdle
    /\ QuickIdle
    /\ DueIdle
    /\ ConnectIdle
    /\ CommandIdle
    /\ cards \in SeqsUpTo(ReviewCards, MaxBatch)
    /\ ri = 0
    /\ header_open = FALSE
    /\ choice = <<>>
    /\ newlabels = <<>>
    /\ rename_default = <<>>
    /\ log = <<>>
    /\ exc = None
    /\ exitcode = -1
    /\ ninputs = 0
    /\ rpc = "main"

\* review_list, `for card in cards`: the next card enters review_card, which
\* builds the header and displays the card (lines 324-327); or the sequence
\* is exhausted and perform_command returns
ReviewListNext ==
    /\ rpc = "main"
    /\ IF ri < Len(cards)
       THEN /\ ri' = ri + 1
            /\ header_open' = (cards[ri + 1].attachments # <<>>)
            /\ choice' = <<>>
            /\ log' = Append(log, Ev("display", ri + 1, <<>>))
            /\ rpc' = "prompt"
       ELSE /\ rpc' = "finished"
            /\ log' = Append(log, Ev("print:all_done", 0, <<>>))
            /\ UNCHANGED <<ri, header_open, choice>>
    /\ UNCHANGED <<cards, newlabels, rename_default, exc, exitcode, ninputs>>
    /\ UNCHANGED outsideReview

\* a command line is read at line 330 and normalises to c
Reads(c) ==
    /\ rpc = "prompt"
    /\ ninputs < MaxInputs
    /\ \E raw \in CommandLines : ReadChoice(raw) = c
    /\ choice' = c
    /\ ninputs' = ninputs + 1

\* a handler that ends the card's loop quietly instead
QuitHandlerBreaks(c) ==
    /\ log' = Append(log, Ev("read", ri, c))
    /\ exc' = exc
    /\ rpc' = "main"

\* the handler quits the session: raise GTDException()
QuitHandler(c) ==
    /\ log' = Append(log, Ev("read", ri, c))
    /\ exc' = "GTDException"
    /\ rpc' = "raised"

\* a delete handler after which the menu is shown again
CmdDeleteNoBreak ==
    /\ Reads(<<"D">>)
    /\ log' = log \o <<Ev("read", ri, <<"D">>), Ev("call:delete", ri, <<>>),
                       Ev("print:card_deleted", ri, <<>>)>>
    /\ cards' = [cards EXCEPT ![ri].deleted = TRUE]
    /\ rpc' = "prompt"
    /\ UNCHANGED <<ri, header_open, newlabels, rename_default, exc, exitcode>>
    /\ UNCHANGED outsideReview

\* lines 331-334
CmdDelete ==
    /\ Reads(<<"D">>)
    /\ log' = log \o <<Ev("read", ri, <<"D">>), Ev("call:delete", ri, <<>>),
                       Ev("print:card_deleted", ri, <<>>)>>
    /\ cards' = [cards EXCEPT ![ri].deleted = TRUE]
    /\ rpc' = "main"
    /\ UNCHANGED <<ri, header_open, newlabels, rename_default, exc, exitcode>>
    /\ UNCHANGED outsideReview

\* a skip after which the loop condition still holds
CmdSkipNoExit ==
    /\ Reads(<<"S">>)
    /\ log' = Append(log, Ev("read", ri, <<"S">>))
    /\ rpc' = "prompt"
    /\ UNCHANGED <<cards, ri, header_open, newlabels, rename_default, exc, exitcode>>
    /\ UNCHANGED outsideReview

\* lines 350-351, then the loop condition of line 328 fails
CmdSkip ==
    /\ Reads(<<"S">>)
    /\ log' = Append(log, Ev("read", ri, <<"S">>))
    /\ rpc' = "main"
    /\ UNCHANGED <<cards, ri, header_open, newlabels, rename_default, exc, exitcode>>
    /\ UNCHANGED outsideReview

\* lines 348-349
CmdQuit ==
    /\ Reads(<<"Q">>)
    /\ QuitHandler(<<"Q">>)
    /\ UNCHANGED <<cards, ri, header_open, newlabels, rename_default, exitcode>>
    /\ UNCHANGED outsideReview

\* lines 339-340
CmdPrint ==
    /\ Reads(<<"P">>)
    /\ log' = log \o <<Ev("read", ri, <<"P">>), Ev("display", ri, <<>>)>>
    /\ UNCHANGED <<cards, ri, header_open, newlabels, rename_default, exc, exitcode, rpc>>
    /\ UNCHANGED outsideReview

\* lines 358-359
CmdInvalid ==
    /\ \E c \in {ReadChoice(raw) : raw \in CommandLines} \ KnownChoices :
          /\ Reads(c)
          /\ log' = log \o <<Ev("read", ri, c), Ev("print:invalid_option", ri, c)>>
    /\ UNCHANGED <<cards, ri, header_open, newlabels, rename_default, exc, exitcode, rpc>>
    /\ UNCHANGED outsideReview

\* lines 352-357
CmdOpen ==
    /\ Reads(<<"O">>)
    /\ IF ~Contains(<<"l", "i", "n", "k">>, Header(header_open))
       THEN log' = log \o <<Ev("read", ri, <<"O">>), Ev("print:no_attachment", ri, <<>>)>>
       ELSE log' = Append(log, Ev("read", ri, <<"O">>))
                   \o [i \in 1..Len(cards[ri].attachments) |->
                          Ev("webbrowser.open", ri, cards[ri].attachments[i])]
    /\ UNCHANGED <<cards, ri, header_open, newlabels, rename_default, exc, exitcode, rpc>>
    /\ UNCHANGED outsideReview

\* lines 341-342 up to the input of line 292
CmdRename ==
    /\ Reads(<<"R">>)
    /\ log' = Append(log, Ev("read", ri, <<"R">>))
    /\ rename_default' = <<>>
    /\ rpc' = "rename"
    /\ UNCHANGED <<cards, ri, header_open, newlabels, exc, exitcode>>
    /\ UNCHANGED outsideReview

\* lines 292-300: the answer to the rename prompt
RenameInput ==
    /\ rpc = "rename"
    /\ ninputs < MaxInputs
    /\ ninputs' = ninputs + 1
    /\ \E line \in NameLines :
          LET newname == Strip(line)
              set == IF newname # <<>> THEN newname ELSE rename_default
          IN  IF set # <<>>
              THEN /\ cards' = [cards EXCEPT ![ri].name = set]
                   /\ log' = Append(log, Ev("call:set_name", ri, set))
              ELSE UNCHANGED <<cards, log>>
    /\ rpc' = "prompt"
    /\ UNCHANGED <<ri, header_open, choice, newlabels, rename_default, exc, exitcode>>
    /\ UNCHANGED outsideReview

\* lines 337-338 and title_to_link (277-289) up to the input of rename
CmdAttachTitle ==
    /\ Reads(<<"A">>)
    /\ LET links == Links(cards[ri].name)
           att == NewAttachments(links, cards[ri].attachments)
           calls == [i \in 1..Len(att) |-> Ev("call:attach", ri, att[i])]
           read == <<Ev("read", ri, <<"A">>)>>
       IN  /\ cards' = [cards EXCEPT ![ri].attachments = @ \o att]
           /\ IF links = <<>>
              THEN \* links[0]
                   /\ log' = log \o read \o calls
                   /\ exc' = "IndexError"
                   /\ rpc' = "raised"
                   /\ UNCHANGED rename_default
              ELSE \/ \E page \in Pages :
                        /\ log' = log \o read \o calls
                                  \o <<Ev("requests.get", ri, links[1])>>
                        /\ rename_default' = TitleOf(page)
                        /\ rpc' = "rename"
                        /\ UNCHANGED exc
                   \/ /\ log' = log \o read \o calls
                                \o <<Ev("requests.get", ri, links[1])>>
                      /\ exc' = "ConnectionError"
                      /\ rpc' = "raised"
                      /\ UNCHANGED rename_default
    /\ UNCHANGED <<ri, header_open, newlabels, exitcode>>
    /\ UNCHANGED outsideReview

\* lines 343-344 up to the first prompt of set_due_date
CmdDueDate ==
    /\ Reads(<<"U">>)
    /\ log' = Append(log, Ev("read", ri, <<"U">>))
    /\ rpc' = "due"
    /\ UNCHANGED <<cards, ri, header_open, newlabels, rename_default, exc, exitcode>>
    /\ UNCHANGED outsideReview

\* lines 264-269: one answer to the due date prompt
DueInput ==
    /\ rpc = "due"
    /\ ninputs < MaxInputs
    /\ ninputs' = ninputs + 1
    /\ \E line \in DateLines :
          LET input_date == Strip(line)
          IN  IF ~DateShape(input_date)
              THEN /\ log' = Append(log, Ev("reprompt:due", ri, input_date))
                   /\ UNCHANGED <<cards, exc, rpc>>
              ELSE IF ~ValidDate(DateArgs(input_date))
              THEN /\ log' = Append(log, Ev("input:due", ri, input_date))
                   /\ exc' = "ValueError"
                   /\ rpc' = "raised"
                   /\ UNCHANGED cards
              ELSE /\ log' = log \o <<Ev("input:due", ri, input_date),
                                      Ev("call:set_due", ri, DateArgs(input_date))>>
                   /\ cards' = [cards EXCEPT ![ri].due = DateArgs(input_date)]
                   /\ rpc' = "prompt"
                   /\ UNCHANGED exc
    /\ UNCHANGED <<ri, header_open, choice, newlabels, rename_default, exitcode>>
    /\ UNCHANGED outsideReview

\* lines 335-336 up to the first prompt of add_labels
CmdTag ==
    /\ Reads(<<"T">>)
    /\ log' = Append(log, Ev("read", ri, <<"T">>))
    /\ newlabels' = <<>>
    /\ rpc' = "tag_choose"
    /\ UNCHANGED <<cards, ri, header_open, rename_default, exc, exitcode>>
    /\ UNCHANGED outsideReview

\* prompt_for_user_choice (lines 376-387) and line 251: one answer
TagChoose ==
    /\ rpc = "tag_choose"
    /\ ninputs < MaxInputs
    /\ ninputs' = ninputs + 1
    /\ \E line \in SelectionLines :
          LET usersel == Strip(line)
              tokens == SelectionTokens(usersel)
          IN  IF \E i \in 1..Len(tokens) : ~IsIntLiteral(tokens[i])
              THEN /\ log' = Append(log, Ev("print:malformed", ri, usersel))
                   /\ UNCHANGED <<newlabels, exc, rpc>>
              ELSE LET indicies == [i \in 1..Len(tokens) |-> ToInt(tokens[i])]
                   IN  /\ log' = Append(log, Ev("input:selection", ri, indicies))
                       /\ IF \E i \in 1..Len(indicies) :
                                ~PyIndexOk(indicies[i], Len(BoardLabels))
                          THEN /\ exc' = "IndexError"
                               /\ rpc' = "raised"
                               /\ UNCHANGED newlabels
                          ELSE /\ newlabels' = newlabels \o
                                     [i \in 1..Len(indicies) |->
                                         PyIndex(BoardLabels, indicies[i])]
                               /\ rpc' = "tag_confirm"
                               /\ UNCHANGED exc
    /\ UNCHANGED <<cards, ri, header_open, choice, rename_default, exitcode>>
    /\ UNCHANGED outsideReview

\* prompt_for_confirmation('Are you done tagging?', default=True) (lines
\* 390-400) and, once done, lines 253-259
TagConfirm ==
    /\ rpc = "tag_confirm"
    /\ ninputs < MaxInputs
    /\ ninputs' = ninputs + 1
    /\ \E key \in {"y", "n", "CR", "q", CtrlC} :
          CASE key = CtrlC ->
                 /\ exc' = "KeyboardInterrupt"
                 /\ rpc' = "raised"
                 /\ UNCHANGED <<cards, log>>
            [] key = "q" ->
                 /\ log' = Append(log, Ev("print:not_y_nor_n", ri, key))
                 /\ UNCHANGED <<cards, exc, rpc>>
            [] key = "n" ->
                 /\ rpc' = "tag_choose"
                 /\ UNCHANGED <<cards, log, exc>>
            [] OTHER ->
                 LET r == AddLabels(ri, cards[ri].labels, newlabels, <<>>)
                 IN  /\ cards' = [cards EXCEPT ![ri].labels = r.labels]
                     /\ log' = log \o r.events
                     /\ rpc' = "prompt"
                     /\ UNCHANGED exc
    /\ UNCHANGED <<ri, header_open, choice, newlabels, rename_default, exitcode>>
    /\ UNCHANGED outsideReview

\* lines 345-347 and move_to_list up to getch: quickmove lists the options
CmdMove ==
    /\ Reads(<<"M">>)
    /\ log' = Append(log, Ev("read", ri, <<"M">>))
    /\ IF Len(BoardLists) > Len(preferred_keys) + Cardinality(RemainderSet)
       THEN exc' = "IndexError" /\ rpc' = "raised"
       ELSE rpc' = "quick" /\ UNCHANGED exc
    /\ UNCHANGED <<cards, ri, header_open, newlabels, rename_default, exitcode>>
    /\ UNCHANGED outsideReview

\* the M handler without its break: the card is moved and the loop goes on
MoveGetchNoBreak ==
    /\ rpc = "quick"
    /\ ninputs < MaxInputs
    /\ ninputs' = ninputs + 1
    /\ \E key \in {"a", "s", "d", "f", "q", CtrlC}, rem \in Orderings(RemainderSet) :
          LET dest == quickmove(BoardLists, rem, key)
          IN  IF dest.status = "ok"
              THEN /\ log' = log \o <<Ev("getch", ri, key),
                                      Ev("call:change_list", ri, dest.value),
                                      Ev("print:moved", ri, dest.value)>>
                   /\ cards' = [cards EXCEPT ![ri].list = dest.value]
                   /\ rpc' = "prompt"
                   /\ UNCHANGED exc
              ELSE /\ log' = Append(log, Ev("getch", ri, key))
                   /\ exc' = dest.status
                   /\ rpc' = "raised"
                   /\ UNCHANGED cards
    /\ UNCHANGED <<ri, header_open, choice, newlabels, rename_default, exitcode>>
    /\ UNCHANGED outsideReview

\* the keystroke of quickmove arrives: lines 431-432, 304-307 and 346-347
MoveGetch ==
    /\ rpc = "quick"
    /\ ninputs < MaxInputs
    /\ ninputs' = ninputs + 1
    /\ \E key \in {"a", "s", "d", "f", "q", CtrlC}, rem \in Orderings(RemainderSet) :
          LET dest == quickmove(BoardLists, rem, key)
          IN  IF dest.status = "ok"
              THEN /\ log' = log \o <<Ev("getch", ri, key),
                                      Ev("call:change_list", ri, dest.value),
                                      Ev("print:moved", ri, dest.value)>>
                   /\ cards' = [cards EXCEPT ![ri].list = dest.value]
                   /\ rpc' = "main"
                   /\ UNCHANGED exc
              ELSE /\ log' = Append(log, Ev("getch", ri, key))
                   /\ exc' = dest.status
                   /\ rpc' = "raised"
                   /\ UNCHANGED cards
    /\ UNCHANGED <<ri, header_open, choice, newlabels, rename_default, exitcode>>
    /\ UNCHANGED outsideReview

\* Ctrl+C while input() waits for a line
Interrupt ==
    /\ rpc \in {"prompt", "rename", "due", "tag_choose"}
    /\ exc' = "KeyboardInterrupt"
    /\ rpc' = "raised"
    /\ UNCHANGED <<cards, ri, header_open, choice, newlabels, rename_default, log,
                   exitcode, ninputs>>
    /\ UNCHANGED outsideReview

\* lines 566-574, and the interpreter's handling of any other exception
ExitCode(e) ==
    IF e = None THEN 0
    ELSE IF e = "KeyboardInterrupt" THEN 0
    ELSE IF e = "GTDException" THEN 1
    ELSE 1

\* main returns or an exception reaches the entry point
ProcessExit ==
    /\ rpc \in {"finished", "raised"}
    /\ exitcode' = ExitCode(exc)
    /\ rpc' = "exited"
    /\ UNCHANGED <<cards, ri, header_open, choice, newlabels, rename_default, log,
                   exc, ninputs>>
    /\ UNCHANGED outsideReview

NextReview ==
    \/ ReviewListNext
    \/ CmdDelete \/ CmdTag \/ CmdAttachTitle \/ CmdPrint \/ CmdRename
    \/ CmdDueDate \/ CmdMove \/ CmdQuit \/ CmdSkip \/ CmdOpen \/ CmdInvalid
    \/ RenameInput \/ DueInput \/ TagChoose \/ TagConfirm \/ MoveGetch
    \/ Interrupt
    \/ ProcessExit

SpecReview == InitReview /\ [][NextReview]_vars

(***************************************************************************)
(* Claims about the review session.                                        *)
(***************************************************************************)
\* the remote calls that change a card
MutationEvs ==
    {"call:delete", "call:add_label", "call:attach", "call:set_name",
     "call:set_due", "call:change_list"}

\* the commands read for card k, in order
ReadsOf(k) == SelectSeq(log, LAMBDA e : e.ev = "read" /\ e.card = k)

\* review_card is still running for card k
InLoop(k) ==
    ri = k /\ rpc \in {"prompt", "rename", "due", "tag_choose", "tag_confirm", "quick"}

\* C2: when the first command read for a card is S, review_card has returned
\* for that card, S is the only command ever read for it, and no mutating
\* remote call was issued on it.
C2_SkipNoMutation ==
    \A k \in 1..Len(cards) :
        (ReadsOf(k) # <<>> /\ ReadsOf(k)[1].arg = <<"S">>) =>
            /\ ~InLoop(k)
            /\ Len(ReadsOf(k)) = 1
            /\ \A i \in 1..Len(log) : log[i].card = k => log[i].ev \notin MutationEvs

\* the first card was skipped and review_list went on to the second
C2_Witness ==
    /\ Len(cards) >= 2
    /\ ReadsOf(1) # <<>> /\ ReadsOf(1)[1].arg = <<"S">>
    /\ ri = 2
    /\ rpc = "prompt"

\* C3: whenever D is read for a card, exactly one delete call is issued on
\* that card, review_card returns, and nothing else is read or called for
\* the card afterwards.
C3_DeleteOnceAndStop ==
    \A i \in 1..Len(log) :
        (log[i].ev = "read" /\ log[i].arg = <<"D">>) =>
            LET k == log[i].card
            IN  /\ Cardinality({j \in 1..Len(log) :
                                  log[j].ev = "call:delete" /\ log[j].card = k}) = 1
                /\ i + 2 <= Len(log)
                /\ log[i + 1] = Ev("call:delete", k, <<>>)
                /\ \A j \in (i + 2)..Len(log) :
                      log[j].card = k => log[j].ev = "print:card_deleted"
                /\ ~InLoop(k)

\* a card was deleted after another command had been read for it, and the
\* next card is under review
C3_Witness ==
    /\ Len(cards) >= 2
    /\ Len(ReadsOf(1)) = 2
    /\ ReadsOf(1)[2].arg = <<"D">>
    /\ cards[1].deleted
    /\ ri = 2

\* C4: when Q is read while card k is under review, no card after k is
\* displayed, read for or mutated, in this or any later state, and nothing
\* at all is done after the Q.
C4_QuitStopsBatch ==
    \A i \in 1..Len(log) :
        (log[i].ev = "read" /\ log[i].arg = <<"Q">>) =>
            /\ \A j \in 1..Len(log) : log[j].card <= log[i].card
            /\ i = Len(log)
            /\ ri = log[i].card
            /\ rpc \in {"raised", "exited"}

\* Q was read on the first of two cards and the process has ended
C4_Witness ==
    /\ Len(cards) >= 2
    /\ ReadsOf(1) # <<>>
    /\ ReadsOf(1)[Len(ReadsOf(1))].arg = <<"Q">>
    /\ rpc = "exited"
    /\ \A j \in 1..Len(log) : log[j].card <= 1

\* C5 (as claimed): a session ended by the user, with Q or with Ctrl+C, exits
\* with status 0.
C5_UserAbortExitsZero ==
    (rpc = "exited" /\ (exc = "KeyboardInterrupt" \/ choice = <<"Q">>)) => exitcode = 0

\* the keys quickmove prints for the lists of the board
AssignedKeys == {preferred_keys[i] : i \in 1..Len(BoardLists)}

\* C8 (as claimed): a keystroke bound to no list, pressed in the quickmove of
\* the M command, raises nothing, and the card is not moved.
C8_UnassignedKeyNoCrash ==
    \A i \in 1..Len(log) :
        (log[i].ev = "getch" /\ log[i].arg \notin AssignedKeys \cup {CtrlC}) =>
            /\ exc = None
            /\ \A j \in 1..Len(log) :
                  log[j].card = log[i].card => log[j].ev # "call:change_list"

\* the index in log of the last command read, 0 when none was read
LastRead ==
    LET R == {i \in 1..Len(log) : log[i].ev = "read"}
    IN  IF R = {} THEN 0 ELSE CHOOSE i \in R : \A j \in R : j <= i

\* Claim C12: in review_card, the command O opens every attachment URL of
\* the card in the local browser when the card has at least one attachment,
\* and reports an error, opening nothing, when it has none; in both cases
\* the loop is back at the command prompt of the same card (unless the user
\* then interrupts the prompt).
C12_OpenAttachments ==
    (LastRead > 0 /\ log[LastRead].arg = <<"O">> /\ exc # "KeyboardInterrupt") =>
        LET i == LastRead
            k == log[i].card
            atts == cards[k].attachments
            after == SubSeq(log, i + 1, Len(log))
        IN  /\ IF atts # <<>>
               THEN after = [j \in 1..Len(atts) |-> Ev("webbrowser.open", k, atts[j])]
               ELSE after = <<Ev("print:no_attachment", k, <<>>)>>
            /\ ri = k
            /\ rpc = "prompt"

\* Claim C13: set_due_date never aborts on user input: every answer that is
\* not a valid calendar date in DD/MM/YYYY form (wrong shape, or right shape
\* with an impossible day, month or year) is re-prompted, and the set-due
\* call is issued once, right after a valid date was entered.
C13_DueNeverAborts ==
    \A i \in 1..Len(log) :
        log[i].ev \in {"input:due", "reprompt:due"} =>
            IF DateShape(log[i].arg) /\ ValidDate(DateArgs(log[i].arg))
            THEN /\ log[i].ev = "input:due"
                 /\ i + 1 <= Len(log)
                 /\ log[i + 1] = Ev("call:set_due", log[i].card, DateArgs(log[i].arg))
            ELSE /\ log[i].ev = "reprompt:due"
                 /\ exc # "ValueError"

\* Claim C14: prompt_for_user_choice over n displayed options returns only
\* when every index entered is an integer in 0..n-1; a non-numeric token, an
\* index >= n or a negative index is re-prompted instead of raising or
\* returning an option the user did not name.
\* (an answer logged as input:selection was not re-prompted: the code then
\* indexes the options with it, which returns or raises IndexError)
C14_SelectionInRange ==
    \A i \in 1..Len(log) :
        log[i].ev = "input:selection" =>
            \A j \in 1..Len(log[i].arg) :
                0 <= log[i].arg[j] /\ log[i].arg[j] < Len(BoardLabels)

\* the list printed next to a key by the quickmove of the M command
ListOfKey(key) ==
    BoardLists[CHOOSE n \in 1..Len(BoardLists) : preferred_keys[n] = key]

\* Claim C16: in review_card, the command M with a key that selects a list
\* issues exactly one change-list call with the selected list as
\* destination, after which the card belongs to exactly that list, and the
\* loop for that card terminates without reading another command.
C16_MoveOnceAndStop ==
    \A i \in 1..Len(log) :
        (log[i].ev = "getch" /\ log[i].arg \in AssignedKeys) =>
            LET k == log[i].card
                dest == ListOfKey(log[i].arg)
            IN  /\ i + 2 <= Len(log)
                /\ log[i + 1] = Ev("call:change_list", k, dest)
                /\ Cardinality({j \in 1..Len(log) :
                                  log[j].ev = "call:change_list" /\ log[j].card = k}) = 1
                /\ cards[k].list = dest
                /\ \A j \in (i + 2)..Len(log) :
                      log[j].card = k => log[j].ev = "print:moved"
                /\ ~InLoop(k)

\* the first card was moved from Inbox to Doing and the review went on to
\* the second card
C16_Witness ==
    /\ Len(cards) >= 2
    /\ \E i \in 1..Len(log) :
          log[i].ev = "call:change_list" /\ log[i].card = 1 /\ log[i].arg = "Doing"
    /\ cards[1].list = "Doing"
    /\ ri = 2
    /\ rpc = "prompt"

\* Claim C17: in the review loop a recoverable action error never ends the
\* loop or the session: after A on a card whose title holds no URL-looking
\* token or whose page yields no title, and after T adding a tag the card
\* already carries, the loop is still running for the same card (at the
\* rename prompt A falls back to, or at the command prompt).  Ctrl+C and a
\* failed page fetch are not among the cases.
C17_RecoverableErrorsContinue ==
    (LastRead > 0 /\ exc \notin {"KeyboardInterrupt", "ConnectionError"}) =>
        LET i == LastRead
            k == log[i].card
            reported == \E j \in (i + 1)..Len(log) : log[j].ev = "print:already_present"
        IN  /\ log[i].arg = <<"A">> =>
                  /\ exc = None
                  /\ ri = k
                  /\ rpc \in {"rename", "prompt"}
            /\ (log[i].arg = <<"T">> /\ reported) =>
                  /\ exc = None
                  /\ ri = k
                  /\ rpc = "prompt"

(***************************************************************************)
(* Display.show_cards as a table and resize_and_get_table                  *)
(* (src/todo/display.py lines 102-154).                                    *)
(***************************************************************************)
\* build_fields (lines 37-48): the columns, in insertion order
Fields == <<"name", "list", "tags", "desc", "due", "activity", "board", "id", "url">>

\* line 148: fields in increasing order of importance
ToRemove == <<"desc", "id", "board", "url", "activity", "list">>

HeaderLen(f) ==
    CASE f = "name" -> 4 [] f = "list" -> 4 [] f = "tags" -> 4 [] f = "desc" -> 4
      [] f = "due" -> 3 [] f = "activity" -> 8 [] f = "board" -> 5
      [] f = "id" -> 2 [] f = "url" -> 3

Max(a, b) == IF a >= b THEN a ELSE b

RECURSIVE SeqMax(_, _)
SeqMax(rs, f) == IF rs = <<>> THEN 0 ELSE Max(Head(rs)[f], SeqMax(Tail(rs), f))

\* the width PrettyTable gives a column: its widest cell or its header
ColWidth(rs, f) == Max(HeaderLen(f), SeqMax(rs, f))

RECURSIVE SumWidths(_, _, _)
SumWidths(rs, fs, pad) ==
    IF fs = {} THEN 0
    ELSE LET f == CHOOSE x \in fs : TRUE
         IN  ColWidth(rs, f) + pad + SumWidths(rs, fs \ {f}, pad)

\* len(table.get_string(fields=fs).splitlines()[0]): with hrules = FRAME
\* (line 128) the first line is the rule "+----+----+", one '+' and two
\* blanks of padding per column and a closing '+'; with PLAIN_COLUMNS (line
\* 126) it is the header line, no border, each column padded right by 8
FramePad == 3
PlainPad == 8

FirstLineWidth(rs, fs, plain) ==
    IF plain THEN SumWidths(rs, fs, PlainPad)
    ELSE 1 + SumWidths(rs, fs, FramePad)

GetString(rs, fs, plain) == [fields |-> fs, width |-> FirstLineWidth(rs, fs, plain)]

\* a loop that stops once the line is no wider than the terminal
WhileConditionStrict(p, mw, tr) == p.width > mw /\ tr # <<>>

\* line 150: len(possible.splitlines()[0]) >= maxwidth and to_remove
WhileCondition(p, mw, tr) == p.width >= mw /\ tr # <<>>

\* the cell lengths one card can put in a row
RowProfiles == [Range(Fields) -> {0, 8 + MaxExtra}]

\* the widths of the terminals the table is shown on
TermWidths == {30, 60, 65, 66, 75, 77, 80, 100, 120, 130}

InitTable ==
    /\ JsonIdle
    /\ FilterIdle
    /\ QuickIdle
    /\ ReviewIdle
    /\ DueIdle
    /\ ConnectIdle
    /\ CommandIdle
    /\ rows \in {<<>>} \cup {<<p>> : p \in RowProfiles}
    /\ table_fields \in {<<>>, <<"name", "due">>}
    /\ tsv \in BOOLEAN
    /\ maxwidth \in TermWidths
    /\ fset = {}
    /\ to_remove = <<>>
    /\ possible = [fields |-> {}, width |-> 0]
    /\ removed = <<>>
    /\ tout = [kind |-> "none", fields |-> {}]
    /\ tpc = "call"

\* show_cards, lines 119-140, up to the loop of resize_and_get_table
\* (lines 144-148)
ShowCards ==
    /\ tpc = "call"
    /\ IF rows = <<>>
       THEN \* table[0] raises IndexError
            /\ tout' = [kind |-> "GTDException", fields |-> {}]
            /\ tpc' = "done"
            /\ UNCHANGED <<fset, to_remove, possible>>
       ELSE IF table_fields # <<>>
       THEN /\ tout' = [kind |-> "printed", fields |-> Range(table_fields)]
            /\ tpc' = "done"
            /\ UNCHANGED <<fset, to_remove, possible>>
       ELSE /\ possible' = GetString(rows, Range(Fields), tsv)
            /\ fset' = Range(Fields)
            /\ to_remove' = ToRemove
            /\ tpc' = "resize"
            /\ UNCHANGED tout
    /\ UNCHANGED <<rows, table_fields, tsv, maxwidth, removed>>
    /\ UNCHANGED outsideTable

\* one iteration of the loop of lines 150-153
ResizeRemove ==
    /\ tpc = "resize"
    /\ WhileCondition(possible, maxwidth, to_remove)
    /\ fset' = fset \ {Head(to_remove)}
    /\ removed' = Append(removed, Head(to_remove))
    /\ to_remove' = Tail(to_remove)
    /\ possible' = GetString(rows, fset', tsv)
    /\ UNCHANGED <<rows, table_fields, tsv, maxwidth, tout, tpc>>
    /\ UNCHANGED outsideTable

\* the loop condition fails: line 154, and show_cards prints the result
ResizeReturn ==
    /\ tpc = "resize"
    /\ ~WhileCondition(possible, maxwidth, to_remove)
    /\ tout' = [kind |-> "printed", fields |-> possible.fields]
    /\ tpc' = "done"
    /\ UNCHANGED <<rows, table_fields, tsv, maxwidth, fset, to_remove, possible, removed>>
    /\ UNCHANGED outsideTable

NextTable == ShowCards \/ ResizeRemove \/ ResizeReturn

SpecTable == InitTable /\ [][NextTable]_vars

(***************************************************************************)
(* Claims about the table.                                                 *)
(***************************************************************************)
RemovalOrder == <<"desc", "id", "board", "url", "activity", "list">>

\* the width of the first line once the first k fields of the removal
\* order are gone
WidthAfter(k) ==
    FirstLineWidth(rows, Range(Fields) \ {RemovalOrder[i] : i \in 1..k}, tsv)

\* C9 (as claimed): the columns removed are a prefix of desc, id, board, url,
\* activity, list; a column goes only while the table is wider than the
\* terminal; the printed table fits (is no wider than the terminal) unless
\* all six are gone; name, tags and due stay.
C9_RemoveWhileWider ==
    (tpc \in {"resize", "done"} /\ table_fields = <<>> /\ rows # <<>>) =>
        /\ removed = SubSeq(RemovalOrder, 1, Len(removed))
        /\ \A k \in 0..(Len(removed) - 1) : WidthAfter(k) > maxwidth
        /\ tpc = "done" =>
              (WidthAfter(Len(removed)) <= maxwidth \/ Len(removed) = Len(RemovalOrder))
        /\ {"name", "tags", "due"} \subseteq fset

\* C9 (amended): the same, with a column removed while the first line of the
\* table is at least as wide as the terminal, and the printed table
\* strictly narrower than the terminal unless all six columns are gone.
C9_RemoveWhileNotNarrower ==
    (tpc \in {"resize", "done"} /\ table_fields = <<>> /\ rows # <<>>) =>
        /\ removed = SubSeq(RemovalOrder, 1, Len(removed))
        /\ fset = Range(Fields) \ Range(removed)
        /\ \A k \in 0..(Len(removed) - 1) : WidthAfter(k) >= maxwidth
        /\ tpc = "done" =>
              /\ WidthAfter(Len(removed)) < maxwidth \/ Len(removed) = Len(RemovalOrder)
              /\ tout = [kind |-> "printed", fields |-> fset]
        /\ {"name", "tags", "due"} \subseteq fset

\* a table wider than the terminal lost desc, was then exactly as wide as
\* the terminal, lost id as well and was printed without the two
C9_Witness ==
    /\ tpc = "done"
    /\ table_fields = <<>>
    /\ WidthAfter(0) > maxwidth
    /\ WidthAfter(1) = maxwidth
    /\ removed = <<"desc", "id">>
    /\ tout.fields = Range(Fields) \ {"desc", "id"}

(***************************************************************************)
(* Structured export: JSONDisplay (src/gtd.py lines 95-136) and            *)
(* Display.show_cards with use_json (src/todo/display.py lines 81-118).    *)
(* A Python value is a record [t, v]: its type and its payload.            *)
(***************************************************************************)
Py(t, v) == [t |-> t, v |-> v]

\* b.decode('utf8')
Decode(b) == Py("str", b.v)

\* str(datetime)
StrOf(d) == Py("str", d.v)

\* JSONDisplay._normalize, lines 103-118; a List, Label or Board carries its
\* name, which must be bytes to have .decode
RECURSIVE _normalize(_)
_normalize(for_json) ==
    CASE for_json.t \in {"List", "Label", "Board"} -> Decode(for_json.v)
      [] for_json.t = "bytes" -> Decode(for_json)
      [] for_json.t = "list" ->
            Py("list", [i \in 1..Len(for_json.v) |-> _normalize(for_json.v[i])])
      [] for_json.t = "datetime" -> StrOf(for_json)
      [] OTHER -> for_json

\* Display._force_json, lines 81-100
RECURSIVE _force_json(_)
_force_json(for_json) ==
    CASE for_json.t \in {"List", "Label", "Board"} -> for_json.v
      [] for_json.t = "bytes" -> Decode(for_json)
      [] for_json.t = "list" ->
            Py("list", [i \in 1..Len(for_json.v) |-> _force_json(for_json.v[i])])
      [] for_json.t = "dict" ->
            Py("dict", [k \in DOMAIN for_json.v |-> _force_json(for_json.v[k])])
      [] for_json.t = "datetime" -> StrOf(for_json)
      [] OTHER -> for_json

\* what json.dumps accepts
RECURSIVE Serializable(_)
Serializable(x) ==
    CASE x.t \in {"str", "NoneType"} -> TRUE
      [] x.t = "list" -> \A i \in 1..Len(x.v) : Serializable(x.v[i])
      [] x.t = "dict" -> \A k \in DOMAIN x.v : Serializable(x.v[k])
      [] OTHER -> FALSE

\* the JSON text json.dumps writes, as a JSON value
RECURSIVE ToJson(_)
ToJson(x) ==
    CASE x.t = "str" -> [t |-> "string", v |-> x.v]
      [] x.t = "NoneType" -> [t |-> "null", v |-> x.v]
      [] x.t = "list" -> [t |-> "array", v |-> [i \in 1..Len(x.v) |-> ToJson(x.v[i])]]
      [] x.t = "dict" -> [t |-> "object", v |-> [k \in DOMAIN x.v |-> ToJson(x.v[k])]]

\* print(json.dumps(x)), or the TypeError it raises
Dumps(x) ==
    IF Serializable(x) THEN [status |-> "printed", json |-> ToJson(x)]
    ELSE [status |-> "TypeError", json |-> <<>>]

\* card.__dict__ of a card named n with labels ls; names are bytes under
\* gtd.py and str under todo/display.py
CardDict(strtype, n, ls) ==
    [ client |-> Py("TrelloClient", "client"),
      id     |-> Py("str", n),
      name   |-> Py(strtype, n),
      labels |-> Py("list", [i \in 1..Len(ls) |-> Py("Label", Py(strtype, ls[i]))]) ]

ExportCards(strtype) ==
    { CardDict(strtype, "milk", <<>>),
      CardDict(strtype, "tea", <<"x">>),
      CardDict(strtype, "jam", <<"x", "y">>) }

Without(d, key) == [k \in DOMAIN d \ {key} |-> d[k]]

\* JSONDisplay.show, lines 131-136: the dict appended to items
ShowResult(d) == Py("dict", [k \in DOMAIN d \ {"client"} |-> _normalize(d[k])])

\* JSONDisplay.__exit__, line 121
ExitItems(its) == IF Len(its) = 1 THEN its[1] ELSE Py("list", its)

\* Display.show_cards, lines 116-117: d.pop('client') and d, for each card;
\* the client is an object, hence truthy
Sanitized(cs) == Py("list", [i \in 1..Len(cs) |-> Py("dict", Without(cs[i], "client"))])

InitJson ==
    /\ FilterIdle
    /\ QuickIdle
    /\ ReviewIdle
    /\ TableIdle
    /\ DueIdle
    /\ ConnectIdle
    /\ CommandIdle
    /\ \/ jpath = "JSONDisplay" /\ jcards \in SeqsUpTo(ExportCards("bytes"), MaxExport)
          /\ jpc = "show"
       \/ jpath = "Display" /\ jcards \in SeqsUpTo(ExportCards("str"), MaxExport)
          /\ jpc = "call"
    /\ jpos = 0
    /\ items = <<>>
    /\ jout = [status |-> "none", json |-> <<>>]

\* perform_command lines 455-457: display.show(card, True) for the next card
JSONDisplayShow ==
    /\ jpc = "show"
    /\ jpos < Len(jcards)
    /\ items' = Append(items, ShowResult(jcards[jpos + 1]))
    /\ jpos' = jpos + 1
    /\ UNCHANGED <<jpath, jcards, jout, jpc>>
    /\ UNCHANGED outsideJson

\* the with block ends: JSONDisplay.__exit__, lines 120-126
JSONDisplayExit ==
    /\ jpc = "show"
    /\ jpos = Len(jcards)
    /\ jout' = Dumps(ExitItems(items))
    /\ jpc' = "done"
    /\ UNCHANGED <<jpath, jcards, jpos, items>>
    /\ UNCHANGED outsideJson

\* Display.show_cards(cards, use_json=True), lines 115-118
ShowCardsJson ==
    /\ jpc = "call"
    /\ jout' = Dumps(_force_json(Sanitized(jcards)))
    /\ jpc' = "done"
    /\ UNCHANGED <<jpath, jcards, jpos, items>>
    /\ UNCHANGED outsideJson

NextJson == JSONDisplayShow \/ JSONDisplayExit \/ ShowCardsJson

SpecJson == InitJson /\ [][NextJson]_vars

(***************************************************************************)
(* Claims about the structured export.                                     *)
(***************************************************************************)
\* the JSON object o is the export of the card dict d
ObjectOf(o, d) == o.t = "object" /\ o.v.id = [t |-> "string", v |-> d.id.v]

\* C10 (as claimed): on either export path, no export fails; one card is
\* printed as a single object; two or more cards as an array with one object
\* per card, in order.
C10_SingletonIsObject ==
    jpc = "done" =>
        /\ jout.status = "printed"
        /\ Len(jcards) = 1 => ObjectOf(jout.json, jcards[1])
        /\ Len(jcards) >= 2 =>
              /\ jout.json.t = "array"
              /\ Len(jout.json.v) = Len(jcards)
              /\ \A i \in 1..Len(jcards) : ObjectOf(jout.json.v[i], jcards[i])


(***************************************************************************)
(* The due lines of the detail view: TextDisplay.show (src/gtd.py) and     *)
(* Display.show_card (src/todo/display.py).  Instants and durations are    *)
(* whole days.  A due date is aware or naive; now is always aware, and     *)
(* subtracting an aware datetime from a naive one raises TypeError, which  *)
(* both views swallow.                                                     *)
(***************************************************************************)
MaxDays == 16

timedelta(weeks, days) == 7 * weeks + days

Colors == [red |-> "red", yellow |-> "yellow", green |-> "green"]

DueCards ==
    [due : BOOLEAN, due_date : 0..MaxDays, aware : BOOLEAN]

\* card.due_date - datetime.datetime.now(datetime.timezone.utc)
DateDiff(card, t) ==
    IF card.aware
    THEN [status |-> "ok", value |-> card.due_date - t]
    ELSE [status |-> "TypeError", value |-> 0]

DueLine(card) ==
    [label |-> "Due:", colour |-> "", value |-> card.due_date]

RemainingLine(display, diff) ==
    [label |-> "Remaining:", colour |-> display, value |-> diff]

\* the if/elif/else of TextDisplay.show
TextDisplayColour(diff) ==
    IF diff < timedelta(0, 0) THEN Colors.red
    ELSE IF diff < timedelta(2, 0) THEN Colors.yellow
    ELSE Colors.green

\* the if/elif/else of Display.show_card
ShowCardColour(diff) ==
    IF diff < timedelta(0, 0) THEN Colors.red
    ELSE IF diff < timedelta(2, 0) THEN Colors.yellow
    ELSE Colors.green

InitDue ==
    /\ JsonIdle
    /\ FilterIdle
    /\ QuickIdle
    /\ ReviewIdle
    /\ TableIdle
    /\ ConnectIdle
    /\ CommandIdle
    /\ dpath \in {"TextDisplay", "Display"}
    /\ dcard \in DueCards
    /\ now \in 0..MaxDays
    /\ dout = <<>>
    /\ dpc = "call"

\* TextDisplay.show, the lines from `if card.due:`
TextDisplayShow ==
    /\ dpc = "call"
    /\ dpath = "TextDisplay"
    /\ LET diff == DateDiff(dcard, now) IN
         dout' = IF ~dcard.due THEN <<>>
                 ELSE IF diff.status = "TypeError" THEN <<DueLine(dcard)>>
                 ELSE <<DueLine(dcard),
                        RemainingLine(TextDisplayColour(diff.value), diff.value)>>
    /\ dpc' = "done"
    /\ UNCHANGED <<dpath, dcard, now>>
    /\ UNCHANGED outsideDue

\* Display.show_card, the lines from `if card.due:`
DisplayShowCard ==
    /\ dpc = "call"
    /\ dpath = "Display"
    /\ LET diff == DateDiff(dcard, now) IN
         dout' = IF ~dcard.due THEN <<>>
                 ELSE IF diff.status = "TypeError" THEN <<DueLine(dcard)>>
                 ELSE <<DueLine(dcard),
                        RemainingLine(ShowCardColour(diff.value), diff.value)>>
    /\ dpc' = "done"
    /\ UNCHANGED <<dpath, dcard, now>>
    /\ UNCHANGED outsideDue

NextDue == TextDisplayShow \/ DisplayShowCard

SpecDue == InitDue /\ [][NextDue]_vars

\* Claim C11: in the detail view of a card with a due date, the
\* remaining-time line (due minus now) is red exactly when the due date is
\* in the past, yellow exactly when it is within 2 weeks from now, and green
\* exactly when it is more than 2 weeks away, the boundaries remaining = 0
\* and remaining = exactly 2 weeks included.
ClaimedColour(remaining) ==
    IF remaining < 0 THEN "red"
    ELSE IF remaining <= 2 * 7 THEN "yellow"
    ELSE "green"

C11_DueColours ==
    dpc = "done" =>
        \A i \in DOMAIN dout :
            dout[i].label = "Remaining:" =>
                /\ dout[i].value = dcard.due_date - now
                /\ dout[i].colour = ClaimedColour(dcard.due_date - now)

(***************************************************************************)
(* Session start: TrelloWrapper.__init__ (src/gtd.py lines 145-150),       *)
(* _validate_config (189-200), __connect (152-167), _filter_by_name        *)
(* (202-206) and the entry point (566-574).  The remote calls are          *)
(* list_boards, get_lists('open'), get_labels and get_lists('open') again; *)
(* the connection may fail at any one of them.                             *)
(***************************************************************************)
\* the subscripts _validate_config evaluates, in its order
RequiredKeys ==
    <<"trello.api_key", "trello.api_secret", "trello.oauth_token_secret",
      "trello.oauth_token", "board_name", "list_names.incoming">>

\* str.lower(), one character
LowerChar(c) ==
    CASE c = "G" -> "g" [] c = "T" -> "t" [] c = "D" -> "d" [] c = "I" -> "i"
      [] c = "W" -> "w" [] c = "H" -> "h"
      [] OTHER -> c

Lower(str) == [i \in 1..Len(str) |-> LowerChar(str[i])]

Inbox == <<"I", "n", "b", "o", "x">>
Doing == <<"D", "o", "i", "n", "g">>

\* what list_boards may return
Accounts ==
    { <<>>,
      <<[name |-> <<"G", "T", "D">>, lists |-> <<Inbox, Doing>>]>>,
      <<[name |-> <<"G", "T", "D">>, lists |-> <<Doing>>]>>,
      <<[name |-> <<"W", "o", "r", "k">>, lists |-> <<Inbox>>]>>,
      <<[name |-> <<"G", "T", "D">>, lists |-> <<Inbox, Doing>>],
        [name |-> <<"g", "t", "d", "2">>, lists |-> <<>>]>> }

Configs ==
    [present : SUBSET Range(RequiredKeys),
     board_name : {<<"g", "t", "d">>, <<"H", "o", "m", "e">>},
     incoming : {Inbox}]

PrimaryLists == {<<>>, <<"i", "n", "b", "o", "x">>, <<"d", "o", "n", "e">>}

RemoteCalls == <<"list_boards", "get_lists", "get_labels", "get_lists_again">>

\* _validate_config: the first subscript that raises KeyError, "" if none
MissingKey(cfg) ==
    LET missing == {i \in 1..Len(RequiredKeys) : RequiredKeys[i] \notin cfg.present}
    IN  IF missing = {} THEN ""
        ELSE RequiredKeys[CHOOSE i \in missing : \A j \in missing : i <= j]

\* _filter_by_name: the indices of the elements the generator keeps
NameMatches(names, name) ==
    {i \in 1..Len(names) : Contains(Lower(name), Lower(names[i]))}

BoardNames(acct) == [i \in 1..Len(acct) |-> acct[i].name]

InitConnect ==
    /\ JsonIdle
    /\ FilterIdle
    /\ QuickIdle
    /\ ReviewIdle
    /\ TableIdle
    /\ DueIdle
    /\ CommandIdle
    /\ config \in Configs
    /\ primary_list \in PrimaryLists
    /\ remote \in Accounts
    /\ fail_at \in {None} \cup Range(RemoteCalls)
    /\ primary_list_name = <<>>
    /\ main_board = 0
    /\ main_list = 0
    /\ cout = <<>>
    /\ cexc = None
    /\ cexit = -1
    /\ cpc = "init"

\* __init__, lines 146-148: parse_configuration with _validate_config, then
\* initialize_trello and primary_list_name
Construct ==
    /\ cpc = "init"
    /\ IF MissingKey(config) # ""
       THEN /\ cout' = Append(cout, <<"A required property", MissingKey(config)>>)
            /\ cexc' = "GTDException"
            /\ cpc' = "raised"
            /\ UNCHANGED primary_list_name
       ELSE /\ primary_list_name' =
                  IF primary_list # <<>> THEN primary_list ELSE config.incoming
            /\ cpc' = "list_boards"
            /\ UNCHANGED <<cout, cexc>>
    /\ UNCHANGED <<config, primary_list, remote, fail_at, main_board, main_list, cexit>>
    /\ UNCHANGED outsideConnect

\* __connect, lines 153-158: the try block
ConnectListBoards ==
    /\ cpc = "list_boards"
    /\ IF fail_at = "list_boards"
       THEN /\ cout' = Append(cout, <<"[FATAL] Could not connect", "">>)
            /\ cexc' = "GTDException"
            /\ cpc' = "raised"
            /\ UNCHANGED main_board
       ELSE /\ LET m == NameMatches(BoardNames(remote), config.board_name)
               IN  IF m = {} THEN main_board' = 0
                   ELSE main_board' \in m
            /\ cpc' = "get_lists"
            /\ UNCHANGED <<cout, cexc>>
    /\ UNCHANGED <<config, primary_list, remote, fail_at, primary_list_name,
                   main_list, cexit>>
    /\ UNCHANGED outsideConnect

\* __connect, lines 159-164
ConnectMainList ==
    /\ cpc = "get_lists"
    /\ IF main_board = 0
       THEN \* [].get_lists
            /\ cexc' = "AttributeError"
            /\ cpc' = "raised"
            /\ UNCHANGED <<cout, main_list>>
       ELSE IF fail_at = "get_lists"
       THEN /\ cexc' = "ConnectionError"
            /\ cpc' = "raised"
            /\ UNCHANGED <<cout, main_list>>
       ELSE LET m == NameMatches(remote[main_board].lists, primary_list_name)
            IN  IF m = {}
                THEN /\ cout' = Append(cout, <<"[FATAL] The provided list name",
                                               remote[main_board].name>>)
                     /\ cexc' = "GTDException"
                     /\ cpc' = "raised"
                     /\ UNCHANGED main_list
                ELSE /\ main_list' \in m
                     /\ cpc' = "lookups"
                     /\ UNCHANGED <<cout, cexc>>
    /\ UNCHANGED <<config, primary_list, remote, fail_at, primary_list_name,
                   main_board, cexit>>
    /\ UNCHANGED outsideConnect

\* __connect, lines 165-167
ConnectLookups ==
    /\ cpc = "lookups"
    /\ IF fail_at \in {"get_labels", "get_lists_again"}
       THEN cexc' = "ConnectionError" /\ cpc' = "raised"
       ELSE cpc' = "connected" /\ UNCHANGED cexc
    /\ UNCHANGED <<config, primary_list, remote, fail_at, primary_list_name,
                   main_board, main_list, cout, cexit>>
    /\ UNCHANGED outsideConnect

\* lines 566-574: the exception reaches the entry point
ConnectExit ==
    /\ cpc = "raised"
    /\ cout' = IF cexc = "GTDException"
               THEN Append(cout, <<"Quitting due to error", "">>)
               ELSE cout
    /\ cexit' = ExitCode(cexc)
    /\ cpc' = "exited"
    /\ UNCHANGED <<config, primary_list, remote, fail_at, primary_list_name,
                   main_board, main_list, cexc>>
    /\ UNCHANGED outsideConnect

NextConnect ==
    \/ Construct \/ ConnectListBoards \/ ConnectMainList \/ ConnectLookups
    \/ ConnectExit

SpecConnect == InitConnect /\ [][NextConnect]_vars

\* Claim C15: at session start each of a missing required configuration
\* key, no board matching the configured board name, no open list matching
\* the primary list name, or a connection failure aborts the session with a
\* user-facing message and the session error that the entry point maps to
\* exit code 1; none of them escapes as a different exception.
FatalCase ==
    \/ Range(RequiredKeys) \ config.present # {}
    \/ fail_at # None
    \/ \A i \in 1..Len(remote) :
          \/ ~Contains(Lower(config.board_name), Lower(remote[i].name))
          \/ \A j \in 1..Len(remote[i].lists) :
                ~Contains(Lower(IF primary_list # <<>> THEN primary_list
                                ELSE config.incoming),
                          Lower(remote[i].lists[j]))

C15_FatalErrorsAreSessionErrors ==
    /\ cpc = "connected" => ~FatalCase
    /\ cpc \in {"raised", "exited"} =>
          /\ cexc = "GTDException"
          /\ cout # <<>>
    /\ cpc = "exited" => cexit = 1

(***************************************************************************)
(* perform_command (src/gtd.py lines 435-508) for the subcommands that     *)
(* process filtered cards: show, grep, batch and review.  The wrapper is   *)
(* connected; get_cards returns a generator, so nothing is fetched until   *)
(* the generator is first advanced, and _cardpipe fetches each target list *)
(* when it reaches it.  What is done with each card (display, prompts,     *)
(* the review menu) is left to the other specifications: here a card is    *)
(* processed when the generator hands it to the subcommand.                *)
(***************************************************************************)
MaxPerList == 1

\* the open lists of the board, among them the lists daily review names
BoardListNames ==
    <<"Inbox", "Doing Today", "Doing this Week", "Doing this Month", "Holding",
      "Someday">>

Incoming == "Inbox"      \* config['list_names']['incoming']
HoldingList == "Holding" \* config['list_names']['holding']

CommandCard(labels, name, attachments, due_date) ==
    [list_labels |-> labels, name |-> name, attachments |-> attachments,
     due_date |-> due_date]

CommandCards ==
    { CommandCard(<<>>, <<"f", "o">>, <<>>, ""),
      CommandCard(<<"y">>, <<"b">>, <<"http://a">>, ""),
      CommandCard(<<>>, <<"b">>, <<>>, "2017-05-01") }

\* a card as the board serves it: with the list it belongs to
OnList(l, cs) ==
    [i \in 1..Len(cs) |->
        [list_labels |-> cs[i].list_labels, name |-> cs[i].name,
         attachments |-> cs[i].attachments, due_date |-> cs[i].due_date,
         list |-> l]]

Boards ==
    { [l \in Range(BoardListNames) |->
          CASE l = "Inbox" -> OnList(l, a)
            [] l = "Someday" -> OnList(l, b)
            [] l = "Doing Today" -> OnList(l, c)
            [] OTHER -> <<>>] :
        a \in SeqsUpTo(CommandCards, MaxPerList),
        b \in SeqsUpTo(CommandCards, MaxPerList),
        c \in {<<>>, <<CommandCard(<<>>, <<"f", "o">>, <<>>, "")>>} }

\* the namespaces parse_args can produce for these subcommands (lines
\* 511-534); tag is the value of line 438
CommandArgs ==
    [ command : {"show", "grep", "batch", "review"},
      type : {"cards", "lists"},
      list : {None, "Someday"},
      tag : {None, MAGIC},
      match : {<<>>, <<"o">>},
      attachments : BOOLEAN,
      has_due : BOOLEAN,
      pattern : {<<>>, <<"o">>},
      daily : BOOLEAN ]

\* the arguments only the subcommand's own parser defines
WellFormedArgs(a) ==
    /\ a.command # "show" => a.type = "cards"
    /\ a.command # "grep" => a.pattern = <<>>
    /\ a.command # "review" => ~a.daily

\* main_board.get_cards('open'): the cards of every open list
RECURSIVE AllOpenCards(_, _)
AllOpenCards(board, names) ==
    IF names = <<>> THEN <<>>
    ELSE board[Head(names)] \o AllOpenCards(board, Tail(names))

\* line 221: what the generator reads from, as the fetches it will make
CardSource(target_lists) ==
    IF target_lists # <<>> THEN target_lists ELSE <<"board">>

FetchCards(board, what) ==
    IF what = "board" THEN AllOpenCards(board, BoardListNames) ELSE board[what]

\* a call of get_cards: lines 218-234 run when the generator is first
\* advanced; until then no fetch is made
GetCards(target_lists, kw) == [kw |-> kw, target_lists |-> target_lists]

\* one next() on the generator (lines 211-216 and 235-241): fetch the
\* following source when the current one is used up, skip the cards a
\* filter rejects, stop at the first kept card or at the end
RECURSIVE GenAdvance(_, _, _, _, _)
GenAdvance(board, fs, todo, buf, fetched) ==
    IF buf # <<>>
    THEN IF Keep(fs, Head(buf))
         THEN [yield |-> <<Head(buf)>>, todo |-> todo, buf |-> Tail(buf),
               fetched |-> fetched]
         ELSE GenAdvance(board, fs, todo, Tail(buf), fetched)
    ELSE IF todo # <<>>
    THEN GenAdvance(board, fs, Tail(todo), FetchCards(board, Head(todo)),
                    Append(fetched, Head(todo)))
    ELSE [yield |-> <<>>, todo |-> todo, buf |-> buf, fetched |-> fetched]

InitCommand ==
    /\ JsonIdle
    /\ FilterIdle
    /\ QuickIdle
    /\ ReviewIdle
    /\ TableIdle
    /\ DueIdle
    /\ ConnectIdle
    /\ cargs \in {a \in CommandArgs : WellFormedArgs(a)}
    /\ cboard \in Boards
    /\ cmain = ""
    /\ cards_gen = [kw |-> GetCardsDefaults, target_lists |-> <<>>]
    /\ gen = [filters |-> <<>>, todo |-> <<>>, buf |-> <<>>]
    /\ fetches = <<>>
    /\ processed = <<>>
    /\ cmdpc = "start"

\* lines 436-439
PerformCommand ==
    /\ cmdpc = "start"
    /\ LET wrapper_main_list == IF cargs.list # None THEN cargs.list ELSE Incoming
           target_lists == IF cargs.list # None THEN <<wrapper_main_list>> ELSE <<>>
       IN  /\ cmain' = wrapper_main_list
           /\ cards_gen' = GetCards(target_lists,
                  [tag |-> cargs.tag, title_regex |-> cargs.match,
                   filterspec |-> None,
                   has_attachments |-> cargs.attachments,
                   has_due_date |-> cargs.has_due])
    /\ cmdpc' = "dispatch"
    /\ UNCHANGED <<cargs, cboard, gen, fetches, processed>>
    /\ UNCHANGED outsideCommand

\* the generator g is about to be iterated
Iterating(g) ==
    [filters |-> BuildFilters(g.kw), todo |-> CardSource(g.target_lists),
     buf |-> <<>>]

\* lines 447-457: show
CommandShow ==
    /\ cmdpc = "dispatch"
    /\ cargs.command = "show"
    /\ IF cargs.type = "lists"
       THEN cmdpc' = "done" /\ UNCHANGED gen
       ELSE cmdpc' = "iterate" /\ gen' = Iterating(cards_gen)
    /\ UNCHANGED <<cargs, cboard, cmain, cards_gen, fetches, processed>>
    /\ UNCHANGED outsideCommand

\* lines 458-462: grep
CommandGrep ==
    /\ cmdpc = "dispatch"
    /\ cargs.command = "grep"
    /\ LET pattern == IF cargs.pattern # <<>> THEN cargs.pattern ELSE <<".", "*">>
       IN  gen' = Iterating(GetCards(<<>>,
                     [GetCardsDefaults EXCEPT !.title_regex = pattern,
                                              !.tag = cargs.tag]))
    /\ cmdpc' = "iterate"
    /\ UNCHANGED <<cargs, cboard, cmain, cards_gen, fetches, processed>>
    /\ UNCHANGED outsideCommand

\* lines 476-497: batch, whatever its type
CommandBatch ==
    /\ cmdpc = "dispatch"
    /\ cargs.command = "batch"
    /\ gen' = Iterating(cards_gen)
    /\ cmdpc' = "iterate"
    /\ UNCHANGED <<cargs, cboard, cmain, cards_gen, fetches, processed>>
    /\ UNCHANGED outsideCommand

\* lines 498-507: review
CommandReview ==
    /\ cmdpc = "dispatch"
    /\ cargs.command = "review"
    /\ IF cargs.daily
       THEN LET doing_lists == <<"Doing Today", "Doing this Week", "Doing this Month">>
                interested_lists == doing_lists \o <<HoldingList, cmain>>
                g == GetCards(interested_lists,
                        [GetCardsDefaults EXCEPT !.tag = cargs.tag,
                                                 !.title_regex = cargs.match])
            IN  cards_gen' = g /\ gen' = Iterating(g)
       ELSE gen' = Iterating(cards_gen) /\ UNCHANGED cards_gen
    /\ cmdpc' = "iterate"
    /\ UNCHANGED <<cargs, cboard, cmain, fetches, processed>>
    /\ UNCHANGED outsideCommand

\* one pass of the subcommand's `for card in ...`
CommandNextCard ==
    /\ cmdpc = "iterate"
    /\ LET r == GenAdvance(cboard, gen.filters, gen.todo, gen.buf, fetches)
       IN  /\ gen' = [gen EXCEPT !.todo = r.todo, !.buf = r.buf]
           /\ fetches' = r.fetched
           /\ processed' = processed \o r.yield
           /\ cmdpc' = IF r.yield = <<>> THEN "done" ELSE "iterate"
    /\ UNCHANGED <<cargs, cboard, cmain, cards_gen>>
    /\ UNCHANGED outsideCommand

NextCommand ==
    \/ PerformCommand
    \/ CommandShow \/ CommandGrep \/ CommandBatch \/ CommandReview
    \/ CommandNextCard

SpecCommand == InitCommand /\ [][NextCommand]_vars

\* Claim C18: for every filtering subcommand (show cards, grep, batch,
\* review), when the list-name filter is supplied the cards processed are
\* drawn only from the named list, with one fetch of that list and no
\* whole-board fetch, and when it is not supplied all open cards of the
\* board are fetched exactly once; the attachment-presence and
\* due-date-presence filters, when supplied, restrict the cards processed.
\* (Daily review names its own lists; it is held to the two presence
\* filters only.)
C18_ListAndPresenceFilters ==
    (cmdpc = "done" /\ cargs.type = "cards") =>
        /\ ~cargs.daily =>
              IF cargs.list # None
              THEN /\ fetches = <<cargs.list>>
                   /\ \A i \in 1..Len(processed) : processed[i].list = cargs.list
              ELSE fetches = <<"board">>
        /\ cargs.attachments =>
              \A i \in 1..Len(processed) : processed[i].attachments # <<>>
        /\ cargs.has_due =>
              \A i \in 1..Len(processed) : processed[i].due_date # ""

====
